---- MODULE Spec2Model ----
(***************************************************************************)
(* vendordeps: the artifact-resolution and extraction pipeline of          *)
(* src/src/lib.rs (VendorDep::download_all_{java,jni,cpp}_deps_to_folder,  *)
(* the per-artifact downloads, the layout scan) as a state machine.        *)
(* Spec and SpecFailover run a pipeline, SpecScan runs                     *)
(* CppInfo::from_existing, SpecCall calls single functions.                *)
(*                                                                         *)
(* Conventions.                                                            *)
(*  - A string is a sequence of one-character strings, so that format!,    *)
(*    str::replace, slicing and Path::file_stem are computed and not       *)
(*    assumed.                                                             *)
(*  - A path on disk is a sequence of components from the filesystem root  *)
(*    (a component is a string); the empty sequence is the root itself.    *)
(*  - The filesystem is [files, dirs]: files holds a [path, data] record  *)
(*    for every regular file, dirs is the set of directories (the root     *)
(*    always exists).  There are no symbolic links.                        *)
(*  - The HTTP servers are the environment: every request draws a response *)
(*    from Responses(pipeline).                                            *)
(***************************************************************************)
EXTENDS Integers, Sequences, FiniteSets, TLC

(***************************************************************************)
(* Bounds of the model.                                                    *)
(***************************************************************************)
\* longest maven_urls list of a manifest
MaxMirrors == 2
\* longest dependency list of a manifest
MaxDeps == 2
\* the per-mirror attempt counter `tried` saturates here
MaxTries == 2
\* longest list of a CppInfo and longest generated frcYear string of the
\* calls made on single functions
MaxLen == 2

(***************************************************************************)
(* Strings and sequences.                                                  *)
(***************************************************************************)
Front(s) == SubSeq(s, 1, Len(s) - 1)

Last(s) == s[Len(s)]

IsPrefix(p, q) == Len(p) <= Len(q) /\ SubSeq(q, 1, Len(p)) = p

\* str::replace(from, to) for one-character patterns
replace(s, from, to) == [i \in 1..Len(s) |-> IF s[i] = from THEN to ELSE s[i]]

\* the test that takes no member for a directory
ends_with_slash_never(s) == FALSE

\* str::ends_with("/")
ends_with_slash(s) == Len(s) > 0 /\ s[Len(s)] = "/"

RECURSIVE SetToSeqs(_)
\* every enumeration order of a finite set
SetToSeqs(S) ==
    IF S = {} THEN {<<>>}
    ELSE UNION {{<<x>> \o t : t \in SetToSeqs(S \ {x})} : x \in S}

Range(s) == {s[i] : i \in 1..Len(s)}

(***************************************************************************)
(* std::path: components of a relative or absolute path string.            *)
(***************************************************************************)
ParentDir == <<".", ".">>

CurDir == <<".">>

RECURSIVE Split(_)
\* the pieces of s between '/' characters (empty pieces included)
Split(s) ==
    IF \A i \in 1..Len(s) : s[i] # "/" THEN <<s>>
    ELSE LET k == CHOOSE i \in 1..Len(s) :
                     s[i] = "/" /\ \A j \in 1..(i - 1) : s[j] # "/"
         IN  <<SubSeq(s, 1, k - 1)>> \o Split(SubSeq(s, k + 1, Len(s)))

\* Path::has_root
has_root(s) == Len(s) > 0 /\ s[1] = "/"

\* Path::components without the RootDir component: empty pieces and "." are
\* dropped, ".." stays as ParentDir
components(s) == SelectSeq(Split(s), LAMBDA c : c # <<>> /\ c # CurDir)

RECURSIVE Normalize(_)
\* the directory a component list names when the kernel resolves it from the
\* root: ".." pops one level (and stays at the root)
Normalize(cs) ==
    IF cs = <<>> THEN <<>>
    ELSE LET up == Normalize(Front(cs))
         IN  IF Last(cs) = ParentDir
             THEN (IF up = <<>> THEN <<>> ELSE Front(up))
             ELSE Append(up, Last(cs))

\* Path::join on an already resolved base: an absolute argument replaces it
join(base, s) == IF has_root(s) THEN components(s) ELSE base \o components(s)

\* index of the last '.' of a file name, 0 if none
LastDot(name) ==
    IF \A i \in 1..Len(name) : name[i] # "." THEN 0
    ELSE CHOOSE i \in 1..Len(name) :
             name[i] = "." /\ \A j \in (i + 1)..Len(name) : name[j] # "."

NoneStr == <<"<none>">>

\* Path::file_stem of a path whose last component is `name`
file_stem(name) ==
    IF name = ParentDir THEN NoneStr
    ELSE IF LastDot(name) <= 1 THEN name
    ELSE SubSeq(name, 1, LastDot(name) - 1)

\* Path::extension
extension(name) ==
    IF name = ParentDir \/ LastDot(name) <= 1 THEN NoneStr
    ELSE SubSeq(name, LastDot(name) + 1, Len(name))

(***************************************************************************)
(* The filesystem: files is a set of [path, data] records with at most one *)
(* record per path.                                                        *)
(***************************************************************************)
EmptyFs == [files |-> {}, dirs |-> {}]

FilePaths(fs) == {f.path : f \in fs.files}

IsFile(fs, p) == p \in FilePaths(fs)

IsDir(fs, p) == p = <<>> \/ p \in fs.dirs

Exists(fs, p) == IsFile(fs, p) \/ IsDir(fs, p)

\* std::fs::create_dir_all(cs), its error ignored by every caller: the
\* ancestors are made from the shallowest on, up to the first one that is a
\* regular file
create_dir_all(fs, cs) ==
    LET blocked == {k \in 1..Len(cs) : IsFile(fs, Normalize(SubSeq(cs, 1, k)))}
        upto == IF blocked = {} THEN Len(cs)
                ELSE (CHOOSE k \in blocked : \A j \in blocked : k <= j) - 1
    IN  [fs EXCEPT !.dirs = @ \cup ({Normalize(SubSeq(cs, 1, k)) : k \in 1..upto} \ {<<>>})]

\* File::create / fs::write can open cs for writing: every ancestor is a
\* directory and the target is not one
CanCreate(fs, cs) ==
    /\ cs # <<>>
    /\ Last(cs) # ParentDir
    /\ \A k \in 1..(Len(cs) - 1) : IsDir(fs, Normalize(SubSeq(cs, 1, k)))
    /\ ~IsDir(fs, Normalize(cs))

\* the file at cs created or truncated, then filled with data
WriteFile(fs, cs, data) ==
    LET p == Normalize(cs)
    IN  [fs EXCEPT !.files = {f \in @ : f.path # p} \cup {[path |-> p, data |-> data]}]

(***************************************************************************)
(* The manifest (VendorDep) and its dependencies.  One record shape serves *)
(* JavaDependency, JniDependency and CppDependency: the Java pipeline      *)
(* reads group_id, artifact_id and version only, the JNI pipeline also     *)
(* is_jar, the C++ pipeline also header_classifier.                        *)
(***************************************************************************)
Hal ==
    [group_id |-> <<"e", ".", "w">>, artifact_id |-> <<"h", "a", "l">>, version |-> <<"1">>,
     header_classifier |-> <<"h", "e", "a", "d", "e", "r", "s">>, is_jar |-> FALSE]

Px ==
    [group_id |-> <<"c", ".", "t", ".", "p">>, artifact_id |-> <<"p", "x">>, version |-> <<"2", ".", "0">>,
     header_classifier |-> <<"h", "d", "r">>, is_jar |-> TRUE]

\* the dependency list of the longest manifest; after Hal and Px the list
\* repeats them
DepList == [i \in 1..MaxDeps |-> IF i % 2 = 1 THEN Hal ELSE Px]

Digits == <<"1", "2", "3", "4", "5", "6", "7", "8", "9">>

\* the i-th repository base URL of a manifest; every base ends with '/'
MirrorUrl(i) == <<"m", Digits[i], "/">>

Manifests ==
    {[maven_urls |-> [i \in 1..m |-> MirrorUrl(i)], dependencies |-> ds] :
        m \in 0..MaxMirrors, ds \in {SubSeq(DepList, 1, n) : n \in 0..MaxDeps}}

\* BinaryPlatform::to_str
to_str(platform) ==
    CASE platform = "LinuxArm32" -> <<"l", "i", "n", "u", "x", "a", "r", "m", "3", "2">>
      [] platform = "LinuxArm64" -> <<"l", "i", "n", "u", "x", "a", "r", "m", "6", "4">>
      [] platform = "LinuxAthena" -> <<"l", "i", "n", "u", "x", "a", "t", "h", "e", "n", "a">>
      [] platform = "LinuxX86_64" -> <<"l", "i", "n", "u", "x", "x", "8", "6", "-", "6", "4">>
      [] platform = "OsxUniversal" -> <<"o", "s", "x", "u", "n", "i", "v", "e", "r", "s", "a", "l">>
      [] platform = "WindowsArm64" -> <<"w", "i", "n", "d", "o", "w", "s", "a", "r", "m", "6", "4">>
      [] platform = "WindowsX86_64" -> <<"w", "i", "n", "d", "o", "w", "s", "x", "8", "6", "-", "6", "4">>
      [] platform = "Headers" -> <<"h", "e", "a", "d", "e", "r", "s">>

\* the arguments of one pipeline call
Calls ==
    {[pipeline |-> p, binary_platform |-> "LinuxAthena", is_static |-> TRUE,
      is_debug |-> TRUE, skip_failed_packages |-> s] :
        p \in {"java", "jni", "cpp"}, s \in BOOLEAN}

(***************************************************************************)
(* The coordinate resolver.                                                *)
(***************************************************************************)
\* the jar named by the artifact alone
file_name_without_version(dep) == dep.artifact_id \o <<".", "j", "a", "r">>

\* JavaDependency::file_name
file_name(dep) == dep.artifact_id \o <<"-">> \o dep.version \o <<".", "j", "a", "r">>

\* JavaDependency::get_url
Java_get_url(dep, maven_url) ==
    maven_url \o replace(dep.group_id, ".", "/") \o <<"/">> \o dep.artifact_id
        \o <<"/">> \o dep.version \o <<"/">> \o file_name(dep)

\* JniDependency::get_url
Jni_get_url(dep, maven_url, platform, is_debug) ==
    maven_url \o replace(dep.group_id, ".", "/") \o <<"/">> \o dep.artifact_id
        \o <<"/">> \o dep.version \o <<"/">> \o dep.artifact_id \o <<"-">> \o dep.version
        \o <<"-">> \o platform \o (IF is_debug THEN <<"d", "e", "b", "u", "g">> ELSE <<>>)
        \o <<".">> \o (IF dep.is_jar THEN <<"j", "a", "r">> ELSE <<"z", "i", "p">>)

\* get_url with the debug suffix before the static suffix
Cpp_get_url_debug_first(dep, maven_url, platform, is_static, is_debug) ==
    maven_url \o replace(dep.group_id, ".", "/") \o <<"/">> \o dep.artifact_id
        \o <<"/">> \o dep.version \o <<"/">> \o dep.artifact_id \o <<"-">> \o dep.version
        \o <<"-">> \o platform \o (IF is_debug THEN <<"d", "e", "b", "u", "g">> ELSE <<>>)
        \o (IF is_static THEN <<"s", "t", "a", "t", "i", "c">> ELSE <<>>) \o <<".", "z", "i", "p">>

\* CppDependency::get_url
Cpp_get_url(dep, maven_url, platform, is_static, is_debug) ==
    maven_url \o replace(dep.group_id, ".", "/") \o <<"/">> \o dep.artifact_id
        \o <<"/">> \o dep.version \o <<"/">> \o dep.artifact_id \o <<"-">> \o dep.version
        \o <<"-">> \o platform \o (IF is_static THEN <<"s", "t", "a", "t", "i", "c">> ELSE <<>>)
        \o (IF is_debug THEN <<"d", "e", "b", "u", "g">> ELSE <<>>) \o <<".", "z", "i", "p">>

\* the URL CppDependency::download_headers_to_folder requests: it calls
\* download_library_to_folder with BinaryPlatform::Headers, false, false
headers_url(dep, maven_url) == Cpp_get_url(dep, maven_url, to_str("Headers"), FALSE, FALSE)

(***************************************************************************)
(* The environment: what a repository can answer to one GET.               *)
(*   transport_ok   reqwest::get(url).await and .bytes().await return Ok   *)
(*   success        the HTTP status is a success status (2xx)              *)
(*   bytes          the body, as an opaque value                           *)
(*   is_zip         zip::ZipArchive::new accepts the body                  *)
(*   members        the archive's entries [name, data], in archive order   *)
(***************************************************************************)
NoBody == [bytes |-> "", is_zip |-> FALSE, members |-> <<>>]

ErrorPage == [bytes |-> "error page", is_zip |-> FALSE, members |-> <<>>]

JarBody == [bytes |-> "jar", is_zip |-> TRUE, members |-> <<>>]

\* l/ (a directory entry), then l/libab.so
ZipGood ==
    [bytes |-> "zip good", is_zip |-> TRUE,
     members |-> <<[name |-> <<"l", "/">>, data |-> ""],
                   [name |-> <<"l", "/", "l", "i", "b", "a", "b", ".", "s", "o">>, data |-> "libab"]>>]

\* l/libab.so, then s/../../e (one level down, two levels up)
ZipTraversal ==
    [bytes |-> "zip traversal", is_zip |-> TRUE,
     members |-> <<[name |-> <<"l", "/", "l", "i", "b", "a", "b", ".", "s", "o">>, data |-> "libab"],
                   [name |-> <<"s", "/", ".", ".", "/", ".", ".", "/", "e">>, data |-> "evil"]>>]

\* /e alone
ZipAbsolute ==
    [bytes |-> "zip absolute", is_zip |-> TRUE,
     members |-> <<[name |-> <<"/", "e">>, data |-> "evil"]>>]

\* l/libab.so, then l/libab.so/g (whose parent is the regular file written
\* just before), then ../e
ZipConflict ==
    [bytes |-> "zip conflict", is_zip |-> TRUE,
     members |-> <<[name |-> <<"l", "/", "l", "i", "b", "a", "b", ".", "s", "o">>, data |-> "libab"],
                   [name |-> <<"l", "/", "l", "i", "b", "a", "b", ".", "s", "o", "/", "g">>, data |-> "g"],
                   [name |-> <<".", ".", "/", "e">>, data |-> "evil"]>>]

\* ../d/ alone: a directory-typed entry that names a place outside the root
ZipBadDir ==
    [bytes |-> "zip bad dir", is_zip |-> TRUE,
     members |-> <<[name |-> <<".", ".", "/", "d", "/">>, data |-> ""]>>]

TransportError == [transport_ok |-> FALSE, success |-> FALSE, body |-> NoBody]

Http(success, body) == [transport_ok |-> TRUE, success |-> success, body |-> body]

\* the answers a repository can give to a request of the pipeline
Responses(pipeline) ==
    IF pipeline = "java"
    THEN {TransportError, Http(FALSE, ErrorPage), Http(TRUE, JarBody)}
    ELSE {TransportError, Http(FALSE, ErrorPage), Http(TRUE, ErrorPage),
          Http(FALSE, ZipGood)}
         \cup {Http(TRUE, z) : z \in {ZipGood, ZipTraversal, ZipAbsolute, ZipConflict,
                                      ZipBadDir}}

(***************************************************************************)
(* Per-artifact downloads.  A download returns a Result; the model names   *)
(* it by "Ok" or by the variant of error::Error.                           *)
(***************************************************************************)
DownloadErrors == {"ReqwestError", "ZipError", "ZipSecurityError", "IoError"}

\* JavaDependency::download_library_to_folder: GET, create_dir_all, fs::write.
\* `fault` is an I/O failure of the write that the path layout does not
\* explain (disk full, permissions).
Java_download_library_to_folder(fs, dep, out_folder, resp, fault) ==
    IF ~resp.transport_ok THEN [fs |-> fs, res |-> "ReqwestError"]
    ELSE LET fs1 == create_dir_all(fs, out_folder)
             target == join(out_folder, file_name(dep))
         IN  IF fault \/ ~CanCreate(fs1, target)
             THEN [fs |-> fs1, res |-> "IoError"]
             ELSE [fs |-> WriteFile(fs1, target, resp.body.bytes), res |-> "Ok"]

\* the first two statements of {Jni,Cpp}Dependency::download_library_to_folder:
\* the GET (`?` on a transport error only) and ZipArchive::new
open_zip(resp) ==
    IF ~resp.transport_ok THEN "ReqwestError"
    ELSE IF ~resp.body.is_zip THEN "ZipError"
    ELSE "Ok"

\* enclosed_name that only refuses names with a root
enclosed_name_root_only(name) == ~has_root(name)

\* ZipFile::enclosed_name is Some: the name has no root and never steps above
\* its starting point (the depth counter of the zip crate: a normal component
\* adds one, ".." takes one and fails at zero)
enclosed_name(name) ==
    /\ ~has_root(name)
    /\ LET cs == components(name)
       IN  \A k \in 1..Len(cs) :
               Cardinality({j \in 1..k : cs[j] # ParentDir})
                   >= Cardinality({j \in 1..k : cs[j] = ParentDir})

\* one iteration of the extraction loop of download_library_to_folder; res is
\* "continue" when the loop goes on to the next member
extract_member(fs, out_folder, member, fault) ==
    IF ends_with_slash(member.name) THEN [fs |-> fs, res |-> "continue"]
    ELSE IF ~enclosed_name(member.name) THEN [fs |-> fs, res |-> "ZipSecurityError"]
    ELSE LET outpath == join(out_folder, member.name)
             fs1 == create_dir_all(fs, Front(outpath))
         IN  IF fault \/ ~CanCreate(fs1, outpath)
             THEN [fs |-> fs1, res |-> "IoError"]
             ELSE [fs |-> WriteFile(fs1, outpath, member.data), res |-> "continue"]

RECURSIVE extract_from(_, _, _, _)
\* the extraction loop from member i on, without I/O faults
extract_from(fs, out_folder, members, i) ==
    IF i > Len(members) THEN [fs |-> fs, res |-> "Ok"]
    ELSE LET r == extract_member(fs, out_folder, members[i], FALSE)
         IN  IF r.res = "continue" THEN extract_from(r.fs, out_folder, members, i + 1)
             ELSE r

\* {Jni,Cpp}Dependency::download_library_to_folder as one call, without I/O
\* faults
Zip_download_library_to_folder(fs, out_folder, resp) ==
    IF open_zip(resp) # "Ok" THEN [fs |-> fs, res |-> open_zip(resp)]
    ELSE extract_from(fs, out_folder, resp.body.members, 1)

(***************************************************************************)
(* The layout scan (the jwalk loop of the JNI and C++ pipelines).          *)
(***************************************************************************)
Entries(fs) == FilePaths(fs) \cup fs.dirs

Children(fs, p) == {q \in Entries(fs) : Len(q) = Len(p) + 1 /\ IsPrefix(p, q)}

\* the listing without its file-type filter
read_dir_entries(fs, p) == Children(fs, p)

\* read_dir(p) filtered by file_type().is_file(), as a set
read_dir_files(fs, p) == {x \in Children(fs, p) : IsFile(fs, x)}

RECURSIVE WalkFrom(_, _), WalkEach(_, _)
\* jwalk::WalkDir::new(p): p itself, then, for a directory, the walks of its
\* children in the order read_dir enumerates them (any order)
WalkFrom(fs, p) ==
    IF IsFile(fs, p) THEN {<<p>>}
    ELSE {<<p>> \o t : t \in UNION {WalkEach(fs, ord) : ord \in SetToSeqs(Children(fs, p))}}

WalkEach(fs, ord) ==
    IF ord = <<>> THEN {<<>>}
    ELSE {a \o b : a \in WalkFrom(fs, ord[1]), b \in WalkEach(fs, Tail(ord))}

RECURSIVE classify(_, _)
\* the body of the walk loop over the first n entries of walk w:
\* temp_search_paths, the library names pushed, and whether stem[3..] panicked
classify(w, n) ==
    IF n = 0 THEN [paths |-> {}, libs |-> <<>>, panic |-> FALSE]
    ELSE LET acc == classify(w, n - 1)
             stem == file_stem(Last(w[n]))
             ext == extension(Last(w[n]))
         IN  IF acc.panic THEN acc
             ELSE IF ext = <<"s", "o">>
             THEN (IF Len(stem) < 3
                   THEN [acc EXCEPT !.paths = @ \cup {Front(w[n])}, !.panic = TRUE]
                   ELSE [acc EXCEPT !.paths = @ \cup {Front(w[n])},
                                    !.libs = Append(@, SubSeq(stem, 4, Len(stem)))])
             ELSE IF ext = <<"d", "l", "l">>
             THEN [acc EXCEPT !.paths = @ \cup {Front(w[n])}, !.libs = Append(@, stem)]
             ELSE acc

(***************************************************************************)
(* State.                                                                  *)
(*   vendordep    the manifest (self)                                      *)
(*   args         the arguments of the pipeline call                       *)
(*   fs           the filesystem                                           *)
(*   pc           "loop"    at `'outer: loop` of a download not yet begun  *)
(*                "for"     at the head of `for maven_url in ..`           *)
(*                "extract" inside the member loop of a zip download       *)
(*                "scan"    at the jwalk loop of the current dependency    *)
(*                "return"  after the dependency loop                      *)
(*                "done"    returned (or panicked)                         *)
(*   depIdx       index of `dep` in the dependency list                    *)
(*   phase        "jar" | "libs" | "headers": which download of `dep`      *)
(*   mirrorIdx    mirrors taken from the `for` iterator in this pass       *)
(*   attempt      the download call in progress or last made: its          *)
(*                dependency, phase, mirror and out_folder, the URL it     *)
(*                requested, the response, the member index i, the paths   *)
(*                it created and its Result res ("pending" until it        *)
(*                returns)                                                 *)
(*   outcome      per mirror, how its attempt in the current pass of the   *)
(*                loop ended: "none" (not attempted), "pending", "Ok",     *)
(*                "Err"                                                    *)
(*   tried        per mirror, the attempts made for the current download   *)
(*   info         include_dirs, library_search_paths, libraries (locals)   *)
(*   result       what the pipeline returned                               *)
(* The reference run of the failover comparison (inert unless failover):   *)
(*   kth          the mirror that is the only one of the reference manifest*)
(*   kthResponse  what mirror kth answers for the current download         *)
(*   refFs        the filesystem of the reference run                      *)
(*   failover     so far the first kth-1 mirrors answered every request    *)
(*                with a network failure and mirror kth succeeded          *)
(* The layout scan:                                                        *)
(*   scan         the scan last made: the directory walked (root), the     *)
(*                walk jwalk produced, the search paths and the library    *)
(*                names it contributed; for CppInfo::from_existing also    *)
(*                the read_dir listing and the number k of its items       *)
(*                already scanned                                          *)
(***************************************************************************)
VARIABLES vendordep, args, fs, pc, depIdx, phase, mirrorIdx, attempt, outcome, tried,
          info, result, kth, kthResponse, refFs, failover, scan

vars ==
    <<vendordep, args, fs, pc, depIdx, phase, mirrorIdx, attempt, outcome, tried,
      info, result, kth, kthResponse, refFs, failover, scan>>

\* the output directory `p` of the pipeline call
OutRoot == <<<<"o">>>>

Mirrors == 1..Len(vendordep.maven_urls)

NumDeps == Len(vendordep.dependencies)

Dep == vendordep.dependencies[depIdx]

dep_path(dep) == join(OutRoot, dep.artifact_id)

\* the headers sent to the directory of the binaries
header_path_in_libs(dep) == join(dep_path(dep), <<"l", "i", "b", "s">>)

header_path(dep) == join(dep_path(dep), <<"i", "n", "c", "l", "u", "d", "e">>)

libs_path(dep) == join(dep_path(dep), <<"l", "i", "b", "s">>)

\* the out_folder argument of the current download
out_folder ==
    CASE phase = "jar" -> OutRoot
      [] phase = "headers" -> header_path(Dep)
      [] phase = "libs" /\ args.pipeline = "cpp" -> libs_path(Dep)
      [] phase = "libs" /\ args.pipeline = "jni" -> dep_path(Dep)

\* the URL the current download requests from mirror m
request_url(m) ==
    CASE phase = "jar" -> Java_get_url(Dep, vendordep.maven_urls[m])
      [] phase = "headers" -> headers_url(Dep, vendordep.maven_urls[m])
      [] phase = "libs" /\ args.pipeline = "cpp" ->
            Cpp_get_url(Dep, vendordep.maven_urls[m], to_str(args.binary_platform),
                        args.is_static, args.is_debug)
      [] phase = "libs" /\ args.pipeline = "jni" ->
            Jni_get_url(Dep, vendordep.maven_urls[m], to_str(args.binary_platform),
                        args.is_debug)

first_phase(pipeline) ==
    CASE pipeline = "java" -> "jar"
      [] pipeline = "jni" -> "libs"
      [] pipeline = "cpp" -> "headers"

NoScan ==
    [listing |-> <<>>, k |-> 0, root |-> <<>>, walk |-> <<>>, paths |-> <<>>, libs |-> <<>>]

\* extend that puts the new elements in front
extend_front(v, other) == other \o v

\* extend that leaves out the elements the vector already holds
extend_dedup(v, other) == v \o SelectSeq(other, LAMBDA x : x \notin Range(v))

\* Vec::extend
extend(v, other) == v \o other

\* CppInfo::new_empty
new_empty == [include_dirs |-> <<>>, library_search_paths |-> <<>>, libraries |-> <<>>]

NoError == [kind |-> "", text |-> <<>>]

Running == [status |-> "running", error |-> NoError, jars |-> <<>>]

Err(e) == [status |-> "Err", error |-> e, jars |-> <<>>]

\* NotFoundError with the format arguments in the order of the URL path
\* (group, version, artifact)
NotFoundError_version_first(dep) ==
    [kind |-> "NotFoundError",
     text |-> dep.group_id \o <<":">> \o dep.version \o <<":">> \o dep.artifact_id]

\* Error::NotFoundError(format!("{}:{}:{}", group_id, artifact_id, version))
NotFoundError(dep) ==
    [kind |-> "NotFoundError",
     text |-> dep.group_id \o <<":">> \o dep.artifact_id \o <<":">> \o dep.version]

NoAttempt ==
    [dep |-> 0, phase |-> "", mirror |-> 0, out_folder |-> <<>>, url |-> <<>>,
     resp |-> TransportError, i |-> 0, created |-> {}, res |-> "none"]

\* the download call of the current dependency and phase against mirror m
NewAttempt(m, resp, i, created, res) ==
    [dep |-> depIdx, phase |-> phase, mirror |-> m, out_folder |-> out_folder,
     url |-> request_url(m), resp |-> resp, i |-> i, created |-> created, res |-> res]

\* the claim's "network failure": a transport error or a non-success status
network_failure(resp) == ~resp.transport_ok \/ ~resp.success

\* the match without its `break 'outer`
match_download_no_break(res) == "continue"

\* the match with a transport error leaving the loop as well
match_download_break_on_reqwest(res) ==
    IF res \in {"Ok", "ReqwestError"} THEN "break" ELSE "continue"

\* the match with a zip-security error leaving the loop as well
match_download_break_on_security(res) ==
    IF res \in {"Ok", "ZipSecurityError"} THEN "break" ELSE "continue"

\* the match that leaves the loop whatever the download returned
match_download_always_break(res) == "break"

\* `match dep.download_..(..).await { Ok(_) => break 'outer, _ => {} }`
match_download(res) == IF res = "Ok" THEN "break" ELSE "continue"

Min(a, b) == IF a <= b THEN a ELSE b

\* what is on disk when the pipeline is called: nothing, or, for the Java
\* pipeline, also an output directory that holds the regular file o/old and
\* the directory o/d with the file o/d/n
Populated ==
    [files |-> {[path |-> <<<<"o">>, <<"o", "l", "d">>>>, data |-> "old"],
                [path |-> <<<<"o">>, <<"d">>, <<"n">>>>, data |-> "n"]},
     dirs |-> {<<<<"o">>>>, <<<<"o">>, <<"d">>>>}]

InitialFs(pipeline) == IF pipeline = "java" THEN {EmptyFs, Populated} ELSE {EmptyFs}

InitCommon ==
    /\ vendordep \in Manifests
    /\ args \in Calls
    /\ fs \in InitialFs(args.pipeline)
    /\ pc = IF vendordep.dependencies = <<>> THEN "return" ELSE "loop"
    /\ depIdx = IF vendordep.dependencies = <<>> THEN 0 ELSE 1
    /\ phase = first_phase(args.pipeline)
    /\ mirrorIdx = 0
    /\ attempt = NoAttempt
    /\ outcome = [j \in Mirrors |-> "none"]
    /\ tried = [j \in Mirrors |-> 0]
    /\ info = new_empty
    /\ result = Running
    /\ scan = NoScan

Init ==
    /\ InitCommon
    /\ kth = 0
    /\ kthResponse = TransportError
    /\ refFs = EmptyFs
    /\ failover = FALSE

\* the same program, run beside the reference run of the single-mirror
\* manifest <<maven_urls[kth]>>
InitFailover ==
    /\ InitCommon
    /\ kth \in Mirrors
    /\ kthResponse = TransportError
    /\ refFs = fs
    /\ failover = TRUE

\* the reference run stops being compared
DropReference ==
    /\ failover' = FALSE
    /\ kthResponse' = TransportError
    /\ refFs' = EmptyFs

\* the download of the reference run for the current dependency and phase
RefDownload(resp) ==
    IF phase = "jar"
    THEN Java_download_library_to_folder(refFs, Dep, out_folder, resp, FALSE)
    ELSE Zip_download_library_to_folder(refFs, out_folder, resp)

\* the records of the last download are dropped
ForgetDownload ==
    /\ mirrorIdx' = 0
    /\ attempt' = NoAttempt
    /\ outcome' = [j \in Mirrors |-> "none"]
    /\ tried' = [j \in Mirrors |-> 0]

\* entry into `'outer: loop` for a new download
LoopEntry ==
    /\ pc = "loop"
    /\ pc' = "for"
    /\ ForgetDownload
    /\ IF failover
       THEN \E r \in Responses(args.pipeline) :
                LET ref == RefDownload(r)
                IN  IF ~network_failure(r) /\ ref.res = "Ok"
                    THEN kthResponse' = r /\ refFs' = ref.fs /\ failover' = TRUE
                    ELSE DropReference
       ELSE UNCHANGED <<kthResponse, refFs, failover>>
    /\ UNCHANGED <<vendordep, args, fs, depIdx, phase, info, result, kth, scan>>

\* after the dependency loop body: the next dependency, or out of the loop
NextDep ==
    IF depIdx < NumDeps
    THEN depIdx' = depIdx + 1 /\ pc' = "loop" /\ phase' = first_phase(args.pipeline)
    ELSE pc' = "return" /\ UNCHANGED <<depIdx, phase>>

\* what follows `break 'outer`
Proceed ==
    CASE phase = "jar" -> NextDep /\ info' = info
      [] phase = "headers" ->
            /\ info' = [info EXCEPT !.include_dirs = Append(@, header_path(Dep))]
            /\ phase' = "libs"
            /\ pc' = "loop"
            /\ depIdx' = depIdx
      [] phase = "libs" -> pc' = "scan" /\ UNCHANGED <<depIdx, phase, info>>

\* the download call from mirror m returned res
Complete(m, res, resp) ==
    /\ outcome' = [outcome EXCEPT ![m] = IF res = "Ok" THEN "Ok" ELSE "Err"]
    /\ IF failover /\ (IF m = kth THEN res = "Ok" ELSE m < kth /\ network_failure(resp))
       THEN UNCHANGED <<kthResponse, refFs, failover>>
       ELSE DropReference
    /\ IF match_download(res) = "break"
       THEN Proceed
       ELSE pc' = "for" /\ UNCHANGED <<depIdx, phase, info>>
    /\ UNCHANGED <<vendordep, args, result, kth, scan>>

\* one iteration of `for maven_url in &self.maven_urls` of the Java pipeline:
\* the whole of JavaDependency::download_library_to_folder
DownloadJar ==
    /\ pc = "for"
    /\ args.pipeline = "java"
    /\ mirrorIdx < Len(vendordep.maven_urls)
    /\ \E resp \in Responses(args.pipeline), fault \in BOOLEAN :
          LET m == mirrorIdx + 1
              r == Java_download_library_to_folder(fs, Dep, out_folder, resp, fault)
          IN  /\ failover /\ m = kth => resp = kthResponse
              /\ mirrorIdx' = m
              /\ tried' = [tried EXCEPT ![m] = Min(@ + 1, MaxTries)]
              /\ fs' = r.fs
              /\ attempt' = NewAttempt(m, resp, 0,
                                        (Entries(r.fs) \ Entries(fs))
                                            \cup {f.path : f \in r.fs.files \ fs.files},
                                        r.res)
              /\ Complete(m, r.res, resp)

\* one iteration of the mirror loop of the JNI and C++ pipelines, up to the
\* member loop: the GET and ZipArchive::new
Request ==
    /\ pc = "for"
    /\ args.pipeline # "java"
    /\ mirrorIdx < Len(vendordep.maven_urls)
    /\ \E resp \in Responses(args.pipeline) :
          LET m == mirrorIdx + 1
              opened == open_zip(resp)
          IN  /\ failover /\ m = kth => resp = kthResponse
              /\ mirrorIdx' = m
              /\ tried' = [tried EXCEPT ![m] = Min(@ + 1, MaxTries)]
              /\ fs' = fs
              /\ IF opened = "Ok" /\ resp.body.members # <<>>
                 THEN /\ attempt' = NewAttempt(m, resp, 1, {}, "pending")
                      /\ pc' = "extract"
                      /\ outcome' = [outcome EXCEPT ![m] = "pending"]
                      /\ UNCHANGED <<vendordep, args, depIdx, phase, info, result, kth,
                                     kthResponse, refFs, failover, scan>>
                 ELSE /\ attempt' = NewAttempt(m, resp, 0, {}, opened)
                      /\ Complete(m, opened, resp)

\* one iteration of `for i in 0..zip.len()`, and the return of the download
\* when it was the last one or raised an error
ExtractMember ==
    /\ pc = "extract"
    /\ \E fault \in BOOLEAN :
          LET members == attempt.resp.body.members
              r == extract_member(fs, out_folder, members[attempt.i], fault)
              made == (Entries(r.fs) \ Entries(fs))
                          \cup {f.path : f \in r.fs.files \ fs.files}
          IN  /\ fs' = r.fs
              /\ UNCHANGED <<mirrorIdx, tried>>
              /\ IF r.res = "continue" /\ attempt.i < Len(members)
                 THEN /\ attempt' = [attempt EXCEPT !.i = @ + 1, !.created = @ \cup made]
                      /\ UNCHANGED <<vendordep, args, pc, depIdx, phase, outcome, info,
                                     result, kth, kthResponse, refFs, failover, scan>>
                 ELSE /\ attempt' = [attempt EXCEPT
                                         !.created = @ \cup made,
                                         !.res = IF r.res = "continue" THEN "Ok" ELSE r.res]
                      /\ Complete(mirrorIdx, IF r.res = "continue" THEN "Ok" ELSE r.res,
                                  attempt.resp)

\* the `for` loop ran out of mirrors: `if !skip_failed_packages { return Err }`,
\* else the enclosing `loop` starts its next pass
Exhausted ==
    /\ pc = "for"
    /\ mirrorIdx = Len(vendordep.maven_urls)
    /\ IF ~args.skip_failed_packages
       THEN /\ result' = Err(NotFoundError(Dep))
            /\ pc' = "done"
            /\ UNCHANGED <<mirrorIdx, outcome>>
       ELSE /\ result' = result
            /\ pc' = "for"
            /\ mirrorIdx' = 0
            /\ outcome' = [j \in Mirrors |-> "none"]
    /\ UNCHANGED <<vendordep, args, fs, depIdx, phase, attempt, tried, info, kth,
                   kthResponse, refFs, failover, scan>>

\* the jwalk loop over the current dependency's directory and
\* `library_search_paths.extend(temp_search_paths)` (a HashSet: any order)
Scan ==
    /\ pc = "scan"
    /\ LET root == IF args.pipeline = "cpp" THEN libs_path(Dep) ELSE dep_path(Dep)
       IN  IF ~Exists(fs, root)
           THEN /\ result' = Err([kind |-> "JwalkError", text |-> <<>>])
                /\ pc' = "done"
                /\ scan' = [NoScan EXCEPT !.root = root]
                /\ UNCHANGED <<depIdx, phase, info>>
           ELSE \E w \in WalkFrom(fs, root) :
                   LET c == classify(w, Len(w))
                   IN  IF c.panic
                       THEN /\ result' = [Running EXCEPT !.status = "panic"]
                            /\ pc' = "done"
                            /\ scan' = [NoScan EXCEPT !.root = root, !.walk = w]
                            /\ UNCHANGED <<depIdx, phase, info>>
                       ELSE \E sp \in SetToSeqs(c.paths) :
                               /\ info' = [info EXCEPT
                                              !.library_search_paths = extend(@, sp),
                                              !.libraries = extend(@, c.libs)]
                               /\ scan' = [NoScan EXCEPT !.root = root, !.walk = w,
                                                         !.paths = sp, !.libs = c.libs]
                               /\ NextDep
                               /\ result' = result
    /\ ForgetDownload
    /\ UNCHANGED <<vendordep, args, fs, kth, kthResponse, refFs, failover>>

\* the return after the dependency loop: Ok(CppInfo {..}) for JNI and C++
\* (include_dirs stays empty for JNI), the read_dir listing for Java
Return ==
    /\ pc = "return"
    /\ pc' = "done"
    /\ IF args.pipeline # "java"
       THEN result' = [Running EXCEPT !.status = "Ok"]
       ELSE IF ~IsDir(fs, OutRoot)
            THEN result' = Err([kind |-> "IoError", text |-> <<>>])
            ELSE \E listing \in SetToSeqs(read_dir_files(fs, OutRoot)) :
                    result' = [Running EXCEPT !.status = "Ok", !.jars = listing]
    /\ ForgetDownload
    /\ UNCHANGED <<vendordep, args, fs, depIdx, phase, info, kth, kthResponse, refFs,
                   failover, scan>>

Next ==
    \/ LoopEntry
    \/ DownloadJar
    \/ Request
    \/ ExtractMember
    \/ Exhausted
    \/ Scan
    \/ Return

Spec == Init /\ [][Next]_vars

SpecFailover == InitFailover /\ [][Next]_vars

(***************************************************************************)
(* A pipeline called on an output directory that an earlier run has left   *)
(* behind.                                                                 *)
(***************************************************************************)
\* the file o/hal/libs/libold.so and its directories
Leftover ==
    [files |-> {[path |-> <<<<"o">>, <<"h", "a", "l">>, <<"l", "i", "b", "s">>, <<"l", "i", "b", "o", "l", "d", ".", "s", "o">>>>, data |-> "old"]},
     dirs |-> {<<<<"o">>>>, <<<<"o">>, <<"h", "a", "l">>>>, <<<<"o">>, <<"h", "a", "l">>, <<"l", "i", "b", "s">>>>}]

InitRerun ==
    /\ vendordep \in {m \in Manifests : Len(m.maven_urls) = 1}
    /\ args \in Calls
    /\ fs = Leftover
    /\ pc = IF vendordep.dependencies = <<>> THEN "return" ELSE "loop"
    /\ depIdx = IF vendordep.dependencies = <<>> THEN 0 ELSE 1
    /\ phase = first_phase(args.pipeline)
    /\ mirrorIdx = 0
    /\ attempt = NoAttempt
    /\ outcome = [j \in Mirrors |-> "none"]
    /\ tried = [j \in Mirrors |-> 0]
    /\ info = new_empty
    /\ result = Running
    /\ scan = NoScan
    /\ kth = 0
    /\ kthResponse = TransportError
    /\ refFs = EmptyFs
    /\ failover = FALSE

SpecRerun == InitRerun /\ [][Next]_vars

(***************************************************************************)
(* CppInfo::from_existing(p) on a tree that is already on disk, one item   *)
(* of read_dir(p) per step.  p is OutRoot.                                 *)
(***************************************************************************)
\* the regular files a tree under OutRoot may hold:
\*   o/a/libs/libx.so   o/a/libs/s/y.dll   o/a/libs/s/libx.so
\*   o/a/libs/z.so (a stem of one character)
\*   o/b/libs/x.dll     o/b/libs/r.txt     o/f (a regular file beside the
\*   artifact directories)
TreeFiles ==
    {<<<<"o">>, <<"a">>, <<"l", "i", "b", "s">>, <<"l", "i", "b", "x", ".", "s", "o">>>>,
     <<<<"o">>, <<"a">>, <<"l", "i", "b", "s">>, <<"s">>, <<"y", ".", "d", "l", "l">>>>,
     <<<<"o">>, <<"a">>, <<"l", "i", "b", "s">>, <<"s">>, <<"l", "i", "b", "x", ".", "s", "o">>>>,
     <<<<"o">>, <<"a">>, <<"l", "i", "b", "s">>, <<"z", ".", "s", "o">>>>,
     <<<<"o">>, <<"b">>, <<"l", "i", "b", "s">>, <<"x", ".", "d", "l", "l">>>>,
     <<<<"o">>, <<"b">>, <<"l", "i", "b", "s">>, <<"r", ".", "t", "x", "t">>>>,
     <<<<"o">>, <<"f">>>>}

\* a directory a tree may hold besides the ancestors of its files:
\* o/b/libs/libq.so/
TreeDirs == {<<<<"o">>, <<"b">>, <<"l", "i", "b", "s">>, <<"l", "i", "b", "q", ".", "s", "o">>>>}

\* the proper ancestors of a path, the filesystem root excluded
Ancestors(p) == {SubSeq(p, 1, k) : k \in 1..(Len(p) - 1)}

Trees ==
    {[files |-> {[path |-> f, data |-> ""] : f \in fl},
      dirs |-> dl \cup UNION {Ancestors(q) : q \in fl \cup dl}] :
        fl \in SUBSET TreeFiles, dl \in SUBSET TreeDirs}

InitScan ==
    /\ vendordep = [maven_urls |-> <<>>, dependencies |-> <<>>]
    /\ args = [pipeline |-> "from_existing", binary_platform |-> "LinuxAthena",
               is_static |-> FALSE, is_debug |-> FALSE, skip_failed_packages |-> FALSE]
    /\ fs \in Trees
    /\ pc = "from_existing"
    /\ depIdx = 0
    /\ phase = ""
    /\ mirrorIdx = 0
    /\ attempt = NoAttempt
    /\ outcome = [j \in Mirrors |-> "none"]
    /\ tried = [j \in Mirrors |-> 0]
    /\ info = new_empty
    /\ result = Running
    /\ scan = NoScan
    /\ kth = 0
    /\ kthResponse = TransportError
    /\ refFs = EmptyFs
    /\ failover = FALSE

\* `for item in std::fs::read_dir(p)?`: the listing, in the order read_dir
\* gives it (any order)
ReadDir ==
    /\ pc = "from_existing"
    /\ IF ~IsDir(fs, OutRoot)
       THEN /\ result' = Err([kind |-> "IoError", text |-> <<>>])
            /\ pc' = "done"
            /\ scan' = scan
       ELSE /\ \E listing \in SetToSeqs(Children(fs, OutRoot)) :
                  scan' = [NoScan EXCEPT !.listing = listing]
            /\ pc' = "item"
            /\ result' = result
    /\ UNCHANGED <<vendordep, args, fs, depIdx, phase, mirrorIdx, attempt, outcome, tried,
                   info, kth, kthResponse, refFs, failover>>

\* one iteration of the loop over read_dir(p): include_dirs.push, the jwalk
\* loop over <item>/libs, library_search_paths.extend(temp_search_paths)
ScanItem ==
    /\ pc = "item"
    /\ scan.k < Len(scan.listing)
    /\ LET item == scan.listing[scan.k + 1]
           root == join(item, <<"l", "i", "b", "s">>)
       IN  IF ~Exists(fs, root)
           THEN /\ result' = Err([kind |-> "JwalkError", text |-> <<>>])
                /\ pc' = "done"
                /\ scan' = [scan EXCEPT !.root = root, !.walk = <<>>, !.paths = <<>>,
                                        !.libs = <<>>]
                /\ info' = info
           ELSE \E w \in WalkFrom(fs, root) :
                   LET c == classify(w, Len(w))
                   IN  IF c.panic
                       THEN /\ result' = [Running EXCEPT !.status = "panic"]
                            /\ pc' = "done"
                            /\ scan' = [scan EXCEPT !.root = root, !.walk = w,
                                                    !.paths = <<>>, !.libs = <<>>]
                            /\ info' = info
                       ELSE \E sp \in SetToSeqs(c.paths) :
                               /\ info' = [include_dirs |->
                                               Append(info.include_dirs,
                                                      join(item, <<"i", "n", "c", "l", "u", "d", "e">>)),
                                           library_search_paths |->
                                               extend(info.library_search_paths, sp),
                                           libraries |-> extend(info.libraries, c.libs)]
                               /\ scan' = [scan EXCEPT !.k = @ + 1, !.root = root,
                                                       !.walk = w, !.paths = sp,
                                                       !.libs = c.libs]
                               /\ pc' = pc
                               /\ result' = result
    /\ UNCHANGED <<vendordep, args, fs, depIdx, phase, mirrorIdx, attempt, outcome, tried,
                   kth, kthResponse, refFs, failover>>

\* `Ok(Self { include_dirs, library_search_paths, libraries })`
ReturnInfo ==
    /\ pc = "item"
    /\ scan.k = Len(scan.listing)
    /\ pc' = "done"
    /\ result' = [Running EXCEPT !.status = "Ok"]
    /\ UNCHANGED <<vendordep, args, fs, depIdx, phase, mirrorIdx, attempt, outcome, tried,
                   info, kth, kthResponse, refFs, failover, scan>>

NextScan ==
    \/ ReadDir
    \/ ScanItem
    \/ ReturnInfo

SpecScan == InitScan /\ [][NextScan]_vars

(***************************************************************************)
(* Properties.                                                             *)
(***************************************************************************)
\* every mirror of the current pass has been attempted and has failed
AllMirrorsFailed == pc = "for" /\ \A j \in Mirrors : outcome[j] = "Err"

\* the pipeline is (still or again) in the mirror loop of the same download
SameDownload == pc' \in {"for", "extract"} /\ depIdx' = depIdx /\ phase' = phase

\* a download call returns an error in this step
FailsNow(kinds) ==
    /\ attempt'.res \in kinds
    /\ attempt.res = "pending" \/ mirrorIdx' = mirrorIdx + 1

\* C1: with skip_failed_packages = true, once every mirror attempt of a
\* download has failed the pipeline goes on to the next dependency: its next
\* step leaves the mirror loop of the failed download.
C1_SkipProceeds ==
    [][(AllMirrorsFailed /\ args.skip_failed_packages) => ~SameDownload]_vars

\* "group_id:artifact_id:version" of a dependency
Coordinate(dep) ==
    LET colon == <<":">>
    IN  (dep.group_id \o colon) \o (dep.artifact_id \o colon \o dep.version)

\* C2: with skip_failed_packages = false, when every mirror of maven_urls has
\* failed for a download (none at all when maven_urls is empty) the pipeline
\* returns NotFoundError whose text is group_id:artifact_id:version of that
\* dependency, and it takes no step after returning, so that no download of a
\* later dependency is attempted.
C2_NotFoundOnExhaustion ==
    [][/\ (AllMirrorsFailed /\ ~args.skip_failed_packages) =>
            /\ result' = Err([kind |-> "NotFoundError", text |-> Coordinate(Dep)])
            /\ pc' = "done"
            /\ <<depIdx, mirrorIdx, tried, fs>>' = <<depIdx, mirrorIdx, tried, fs>>
       /\ pc # "done"]_vars

\* NotFoundError was returned for a dependency that has a successor, after real
\* mirrors were tried
C2_Witness ==
    /\ result.status = "Err"
    /\ result.error.kind = "NotFoundError"
    /\ depIdx < NumDeps
    /\ Len(vendordep.maven_urls) >= 2
    /\ \A j \in Mirrors : tried[j] = 1

\* C3: within a download the mirrors are attempted in the order of maven_urls:
\* a mirror is attempted only when every mirror before it has failed, and
\* after a success no mirror is attempted (nor can be: the loop is left).
C3_MirrorOrder ==
    /\ \A j \in Mirrors :
          /\ outcome[j] # "none" => \A i \in 1..(j - 1) : outcome[i] = "Err"
          /\ outcome[j] = "Ok" => \A i \in (j + 1)..Len(vendordep.maven_urls) :
                                      outcome[i] = "none"
          /\ outcome[j] = "pending" => j = mirrorIdx /\ pc = "extract"
    /\ pc \in {"for", "extract"} => \A j \in Mirrors : outcome[j] # "Ok"

\* the second mirror served the download after the first one failed
C3_Witness ==
    /\ Len(vendordep.maven_urls) >= 2
    /\ outcome[1] = "Err"
    /\ outcome[2] = "Ok"

\* C4: in a pipeline run each download is attempted against each mirror at most
\* once, whatever skip_failed_packages is.
C4_AtMostOnce == \A j \in Mirrors : tried[j] <= 1

\* C5: in a run where, for every download, the mirrors before kth answered
\* with a network failure and mirror kth succeeded, the filesystem after the
\* run equals the one of the run of the manifest whose only mirror is kth.
C5_FailoverEquivalence == (pc = "done" /\ failover) => fs = refFs

\* a download call has returned and its record is still at hand
Returned == attempt.res \notin {"none", "pending"}

\* the archive of the current attempt was received and opened
Opened == attempt.res # "none" /\ attempt.phase # "jar" /\ open_zip(attempt.resp) = "Ok"

\* the path of an archive member is absolute or traverses out of `root`: the
\* member, resolved under root, is at some point of its path not below root
Escapes(root, name) ==
    \/ has_root(name)
    \/ \E k \in 1..Len(components(name)) :
          ~IsPrefix(root, Normalize(root \o SubSeq(components(name), 1, k)))

\* the members of the current archive that escape the attempt's out_folder
EscapingMembers ==
    {k \in 1..Len(attempt.resp.body.members) :
        Escapes(attempt.out_folder, attempt.resp.body.members[k].name)}

\* those that are not directory-typed (their name does not end in '/')
EscapingFiles ==
    {k \in EscapingMembers : ~ends_with_slash(attempt.resp.body.members[k].name)}

\* everything on disk is below the pipeline's output directory; every file the
\* current download created is strictly below its out_folder, and every
\* directory it made is out_folder, one of its ancestors or below it
NothingOutside ==
    /\ \A p \in Entries(fs) : IsPrefix(OutRoot, p)
    /\ \A p \in attempt.created :
          IF IsFile(fs, p)
          THEN IsPrefix(attempt.out_folder, p) /\ p # attempt.out_folder
          ELSE IsPrefix(attempt.out_folder, p) \/ IsPrefix(p, attempt.out_folder)

C7_FailureIsNetworkError ==
    (attempt.res # "none" /\ network_failure(attempt.resp)) =>
        (attempt.res = "ReqwestError" /\ attempt.created = {})

\* C8: the URL requested by a headers download is
\* get_url(base, header_classifier, false, false).
C8_HeadersUrl ==
    (attempt.res # "none" /\ attempt.phase = "headers") =>
        attempt.url = Cpp_get_url(vendordep.dependencies[attempt.dep],
                                  vendordep.maven_urls[attempt.mirror],
                                  vendordep.dependencies[attempt.dep].header_classifier,
                                  FALSE, FALSE)

\* C9: a failed attempt of any kind is swallowed: the pipeline returns nothing
\* and stays in the mirror loop of the same download, past the failed mirror;
\* and the only error the download loops return is NotFoundError, after every
\* mirror has failed.
C9_Swallowed ==
    [][/\ FailsNow(DownloadErrors) =>
            /\ result' = result
            /\ pc' = "for"
            /\ depIdx' = depIdx /\ phase' = phase
            /\ mirrorIdx' = attempt'.mirror
            /\ outcome'[attempt'.mirror] = "Err"
       /\ (pc \in {"loop", "for", "extract"} /\ result'.status # "running") =>
            /\ result'.status = "Err"
            /\ result'.error.kind = "NotFoundError"
            /\ AllMirrorsFailed]_vars

\* an archive error (ZipArchive::new refused the body) was swallowed and a
\* mirror is left to try
C9_Witness ==
    /\ attempt.res = "ZipError"
    /\ pc = "for"
    /\ result = Running
    /\ mirrorIdx < Len(vendordep.maven_urls)

FatalErrors == {"ZipSecurityError", "IoError"}

\* C10 (as amended): a zip-security or I/O error raised while processing a
\* mirror's response is not fatal to the dependency: it is swallowed, and
\* while a later mirror remains the next step of the pipeline is the attempt
\* of the next mirror for the same download.
C10_NextMirrorAfterFatal ==
    [][/\ FailsNow(FatalErrors) => (pc' = "for" /\ result' = result)
       /\ (pc = "for" /\ attempt.res \in FatalErrors
             /\ mirrorIdx < Len(vendordep.maven_urls)) =>
            /\ mirrorIdx' = mirrorIdx + 1
            /\ tried'[mirrorIdx + 1] >= 1
            /\ attempt'.mirror = mirrorIdx + 1
            /\ attempt'.dep = attempt.dep /\ attempt'.phase = attempt.phase]_vars

\* the attempt of the second mirror has returned for the first download into
\* a directory where the attempt of the first mirror wrote a member before it
\* was stopped (only the zip-security and the I/O error stop an extraction
\* that has begun); the record of the first attempt is gone by then, its trace
\* is the file it left
C10_Witness ==
    /\ attempt.dep = 1
    /\ attempt.mirror = 2
    /\ tried[1] = 1 /\ tried[2] = 1
    /\ attempt.res \in FatalErrors \cup {"Ok"}
    /\ attempt.phase # "jar"
    /\ \E p \in FilePaths(fs) : IsPrefix(attempt.out_folder, p) /\ p \notin attempt.created

\* C10 (as stated): after a zip-security or I/O error no further mirror is
\* attempted for that download.
C10_Original ==
    [][(pc = "for" /\ attempt.res \in FatalErrors) => mirrorIdx' # mirrorIdx + 1]_vars

(***************************************************************************)
(* The flag emitters of CppInfo.  A path is displayed as its components    *)
(* joined with '/'.                                                        *)
(***************************************************************************)
RECURSIVE join_str(_, _)
\* [String]::join(sep)
join_str(strs, sep) ==
    IF strs = <<>> THEN <<>>
    ELSE IF Len(strs) = 1 THEN strs[1]
    ELSE strs[1] \o sep \o join_str(Tail(strs), sep)

\* Path::display
display(p) == join_str(p, <<"/">>)

\* CppInfo::ld_library_path
ld_library_path(i) ==
    join_str([k \in 1..Len(i.library_search_paths) |-> display(i.library_search_paths[k])],
             <<":">>)

\* CppInfo::gcc_clang_include_dir_args
gcc_clang_include_dir_args(i) ==
    [k \in 1..Len(i.include_dirs) |-> <<"-", "I">> \o display(i.include_dirs[k])]

\* CppInfo::gcc_clang_library_search_path_args
gcc_clang_library_search_path_args(i) ==
    [k \in 1..Len(i.library_search_paths) |->
        <<"-", "L">> \o display(i.library_search_paths[k])]

\* CppInfo::gcc_clang_library_args
gcc_clang_library_args(i) ==
    [k \in 1..Len(i.libraries) |-> <<"-", "l">> \o i.libraries[k]]

\* the chain with the library flags before the search flags
gcc_clang_args_libraries_first(i) ==
    gcc_clang_include_dir_args(i) \o gcc_clang_library_args(i)
        \o gcc_clang_library_search_path_args(i)

\* CppInfo::gcc_clang_args
gcc_clang_args(i) ==
    gcc_clang_include_dir_args(i) \o gcc_clang_library_search_path_args(i)
        \o gcc_clang_library_args(i)

(***************************************************************************)
(* frcYear: __private::deserialize_string_or_u32_for_u32.  A number is its *)
(* decimal digits without leading zeros, so that the 32-bit range is the   *)
(* real one.                                                               *)
(***************************************************************************)
DigitChars == {"0", "1", "2", "3", "4", "5", "6", "7", "8", "9"}

DigitRank(c) ==
    CASE c = "0" -> 0 [] c = "1" -> 1 [] c = "2" -> 2 [] c = "3" -> 3 [] c = "4" -> 4
      [] c = "5" -> 5 [] c = "6" -> 6 [] c = "7" -> 7 [] c = "8" -> 8 [] c = "9" -> 9

\* u32::MAX = 4294967295
U32Max == <<"4", "2", "9", "4", "9", "6", "7", "2", "9", "5">>

RECURSIVE Canon(_)
\* the digits of a number without leading zeros ("0" for zero)
Canon(ds) == IF Len(ds) > 1 /\ ds[1] = "0" THEN Canon(Tail(ds)) ELSE ds

\* a <= b for two numbers given by their digits without leading zeros
LeqDec(a, b) ==
    \/ Len(a) < Len(b)
    \/ /\ Len(a) = Len(b)
       /\ \/ a = b
          \/ \E k \in 1..Len(a) :
                /\ SubSeq(a, 1, k - 1) = SubSeq(b, 1, k - 1)
                /\ DigitRank(a[k]) < DigitRank(b[k])

ParseError == [ok |-> FALSE, value |-> <<>>]

RECURSIVE parse_digits(_, _)
\* the digit loop of u32::from_str: result = result * 10 + digit, checked
parse_digits(ds, acc) ==
    IF ds = <<>> THEN [ok |-> TRUE, value |-> acc]
    ELSE IF ds[1] \notin DigitChars THEN ParseError
    ELSE LET next == Canon(acc \o <<ds[1]>>)
         IN  IF LeqDec(next, U32Max) THEN parse_digits(Tail(ds), next) ELSE ParseError

\* str::parse::<u32>: an empty string and a lone sign are errors, one leading
\* '+' is accepted, '-' is not a digit
parse(x) ==
    IF x = <<>> \/ x = <<"+">> \/ x = <<"-">> THEN ParseError
    ELSE IF x[1] = "+" THEN parse_digits(Tail(x), <<"0">>)
    ELSE parse_digits(x, <<"0">>)

\* a JSON number token that is an integer: sign and digits
JsonInt(neg, ds) == [type |-> "number", neg |-> neg, digits |-> Canon(ds)]

JsonString(x) == [type |-> "string", s |-> x]

\* the deserializer that knows the integer form only
deserialize_u32_only(v) ==
    IF v.type = "number" /\ ~v.neg /\ LeqDec(v.digits, U32Max)
    THEN [ok |-> TRUE, value |-> v.digits]
    ELSE ParseError

\* deserialize_string_or_u32_for_u32: the untagged enum takes Int(u32) for a
\* number in range and String for a string; Int(x) is x, String(x) is parsed
deserialize_string_or_u32_for_u32(v) ==
    IF v.type = "number"
    THEN (IF ~v.neg /\ LeqDec(v.digits, U32Max)
          THEN [ok |-> TRUE, value |-> v.digits]
          ELSE ParseError)
    ELSE IF v.type = "string" THEN parse(v.s)
    ELSE ParseError

\* serde_json::from_value::<VendorDep> on a manifest, of whose fields the
\* model keeps name and frcYear
from_json(json) ==
    LET year == deserialize_string_or_u32_for_u32(json.frcYear)
    IN  IF year.ok
        THEN [status |-> "Ok", value |-> [name |-> json.name, frc_year |-> year.value]]
        ELSE [status |-> "Err", value |-> <<>>]

(***************************************************************************)
(* Single library functions, each called once on arguments drawn from      *)
(* bounded sets: args holds the function's name and arguments, result what *)
(* it returned.                                                            *)
(***************************************************************************)
BoundedSeqs(S, n) == UNION {[1..k -> S] : k \in 0..n}

\* the paths a/ and o/i, the library names c and xy
CallPaths == {<<<<"a">>>>, <<<<"o">>, <<"i">>>>}

CallLibraries == {<<"c">>, <<"x", "y">>}

CppInfos ==
    [include_dirs : BoundedSeqs(CallPaths, MaxLen),
     library_search_paths : BoundedSeqs(CallPaths, MaxLen),
     libraries : BoundedSeqs(CallLibraries, MaxLen)]

\* Maven coordinates: group ids with no, one and two dots; artifact ids and
\* versions are single path segments
Coordinates ==
    {[group_id |-> g, artifact_id |-> a, version |-> v,
      header_classifier |-> <<"h", "e", "a", "d", "e", "r", "s">>, is_jar |-> FALSE] :
        g \in {<<"e", ".", "w">>, <<"c", ".", "t", ".", "p">>, <<"g">>},
        a \in {<<"h", "a", "l">>, <<"p", "x">>},
        v \in {<<"1">>, <<"2", ".", "0">>}}

CallBases == {<<"m", "1", "/">>, <<"h", ":", "/", "r", "/">>}

CallPlatforms == {to_str("LinuxAthena"), to_str("Headers"), <<"h", "d", "r">>}

\* frcYear values: every string of at most MaxLen characters over digits,
\* signs, blank, letter and dot; the years 2024 and 02024; the numbers around
\* u32::MAX; integers; and a value that is neither string nor number
YearAlphabet == {"0", "2", "4", "+", "-", " ", "a", "."}

YearStrings ==
    BoundedSeqs(YearAlphabet, MaxLen)
        \cup {<<"2", "0", "2", "4">>, <<"0", "2", "0", "2", "4">>, <<"+", "2", "0", "2", "4">>,
              <<"4", "2", "9", "4", "9", "6", "7", "2", "9", "5">>, <<"4", "2", "9", "4", "9", "6", "7", "2", "9", "6">>,
              <<"4", "2", "9", "4", "9", "6", "7", "2", "9", "5", "0">>, <<"0", "0", "0", "4", "2", "9", "4", "9", "6", "7", "2", "9", "5">>}

YearValues ==
    {JsonString(x) : x \in YearStrings}
        \cup {JsonInt(n, ds) : n \in BOOLEAN,
                               ds \in {<<"0">>, <<"7">>, <<"2", "0", "2", "4">>, <<"4", "2", "9", "4", "9", "6", "7", "2", "9", "5">>, <<"4", "2", "9", "4", "9", "6", "7", "2", "9", "6">>}}
        \cup {[type |-> "null"]}

UnitCalls ==
    {[fn |-> f, info |-> i] : f \in {"gcc_clang_args", "ld_library_path"}, i \in CppInfos}
        \cup {[fn |-> "Cpp_get_url", dep |-> d, maven_url |-> b, platform |-> pf,
               is_static |-> st, is_debug |-> dbg] :
                 d \in Coordinates, b \in CallBases, pf \in CallPlatforms,
                 st \in BOOLEAN, dbg \in BOOLEAN}
        \cup {[fn |-> "Java_download_library_to_folder", dep |-> d, maven_url |-> b] :
                 d \in Coordinates, b \in CallBases}
        \cup {[fn |-> "from_json", json |-> [name |-> "n", frcYear |-> y]] :
                 y \in YearValues}

InitCall ==
    /\ vendordep = [maven_urls |-> <<>>, dependencies |-> <<>>]
    /\ args \in UnitCalls
    /\ fs = EmptyFs
    /\ pc = "call"
    /\ depIdx = 0
    /\ phase = ""
    /\ mirrorIdx = 0
    /\ attempt = NoAttempt
    /\ outcome = [j \in Mirrors |-> "none"]
    /\ tried = [j \in Mirrors |-> 0]
    /\ info = new_empty
    /\ result = Running
    /\ scan = NoScan
    /\ kth = 0
    /\ kthResponse = TransportError
    /\ refFs = EmptyFs
    /\ failover = FALSE

\* the call returns v; nothing but the filesystem can have changed
Returns(v) ==
    /\ pc' = "done"
    /\ result' = v
    /\ UNCHANGED <<vendordep, args, depIdx, phase, mirrorIdx, attempt, outcome, tried,
                   info, kth, kthResponse, refFs, failover, scan>>

Call_gcc_clang_args ==
    /\ pc = "call"
    /\ args.fn = "gcc_clang_args"
    /\ Returns([status |-> "Ok", value |-> gcc_clang_args(args.info)])
    /\ fs' = fs

Call_ld_library_path ==
    /\ pc = "call"
    /\ args.fn = "ld_library_path"
    /\ Returns([status |-> "Ok", value |-> ld_library_path(args.info)])
    /\ fs' = fs

Call_Cpp_get_url ==
    /\ pc = "call"
    /\ args.fn = "Cpp_get_url"
    /\ Returns([status |-> "Ok",
                value |-> Cpp_get_url(args.dep, args.maven_url, args.platform,
                                      args.is_static, args.is_debug)])
    /\ fs' = fs

\* JavaDependency::download_library_to_folder(OutRoot, maven_url) answered
\* with the jar: the URL it requested is kept beside its Result
Call_Java_download_library_to_folder ==
    /\ pc = "call"
    /\ args.fn = "Java_download_library_to_folder"
    /\ LET r == Java_download_library_to_folder(fs, args.dep, OutRoot,
                                                Http(TRUE, JarBody), FALSE)
       IN  /\ fs' = r.fs
           /\ Returns([status |-> r.res, value |-> Java_get_url(args.dep, args.maven_url)])

Call_from_json ==
    /\ pc = "call"
    /\ args.fn = "from_json"
    /\ Returns(from_json(args.json))
    /\ fs' = fs

NextCall ==
    \/ Call_gcc_clang_args
    \/ Call_ld_library_path
    \/ Call_Cpp_get_url
    \/ Call_Java_download_library_to_folder
    \/ Call_from_json

SpecCall == InitCall /\ [][NextCall]_vars

(***************************************************************************)
(* Properties of the layout scan.                                          *)
(***************************************************************************)
\* C11: the scan never panics on a .so file whose stem has fewer than three
\* characters: whatever the tree, from_existing (and the scan of a pipeline)
\* returns a result.
C11_NoPanic == result.status # "panic"

LibExtensions == {<<"s", "o">>, <<"d", "l", "l">>}

\* the positions of walk w whose entry has extension so or dll
Matches(w) == {n \in 1..Len(w) : extension(Last(w[n])) \in LibExtensions}

\* the position at which the walk first meets a so/dll entry of directory d
FirstMet(w, d) ==
    CHOOSE n \in Matches(w) :
        /\ Front(w[n]) = d
        /\ \A m \in Matches(w) : Front(w[m]) = d => n <= m

\* the i-th so/dll entry of the walk
NthMatch(w, i) ==
    CHOOSE n \in Matches(w) : Cardinality({m \in Matches(w) : m <= n}) = i

\* the library name of an entry: the stem without its first three characters
\* for so, the stem for dll
LibName(entry) ==
    IF extension(Last(entry)) = <<"s", "o">>
    THEN SubSeq(file_stem(Last(entry)), 4, Len(file_stem(Last(entry))))
    ELSE file_stem(Last(entry))

\* an artifact directory was scanned to the end of its walk
Scanned == scan.walk # <<>> /\ result.status # "panic"

\* C12: what the scan of one artifact contributes is in walk order: the
\* library names are those of the so/dll entries in the order they are
\* walked, and a search path whose first so/dll entry is met earlier in the
\* walk precedes one whose first such entry is met later.
C12_WalkOrder ==
    Scanned =>
        /\ Len(scan.libs) = Cardinality(Matches(scan.walk))
        /\ \A i \in 1..Len(scan.libs) :
              scan.libs[i] = LibName(scan.walk[NthMatch(scan.walk, i)])
        /\ \A a, b \in 1..Len(scan.paths) :
              a < b => FirstMet(scan.walk, scan.paths[a]) < FirstMet(scan.walk, scan.paths[b])

\* <out>/<artifact_id>/include of every dependency, in manifest order
ExpectedIncludeDirs ==
    [i \in 1..NumDeps |->
        OutRoot \o <<vendordep.dependencies[i].artifact_id>>
                \o <<<<"i", "n", "c", "l", "u", "d", "e">>>>]

\* the directory the pipeline scans for the current dependency
ArtifactRoot ==
    IF args.pipeline = "cpp"
    THEN OutRoot \o <<Dep.artifact_id>> \o <<<<"l", "i", "b", "s">>>>
    ELSE OutRoot \o <<Dep.artifact_id>>

\* C13: after a successful C++ run include_dirs is <out>/<artifact_id>/include
\* of the dependencies in manifest order, one entry each; in the C++ and JNI
\* pipelines the search paths and libraries of a dependency are put behind
\* all those of the dependencies before it (its scan appends what it found
\* under the dependency's directory, and nothing else touches the lists).
C13_ManifestOrder ==
    [][/\ (pc = "scan" /\ pc' # "done") =>
            /\ scan'.root = ArtifactRoot
            /\ \A i \in 1..Len(scan'.paths) : IsPrefix(ArtifactRoot, scan'.paths[i])
            /\ info'.library_search_paths = info.library_search_paths \o scan'.paths
            /\ info'.libraries = info.libraries \o scan'.libs
       /\ pc # "scan" =>
            /\ info'.library_search_paths = info.library_search_paths
            /\ info'.libraries = info.libraries
       /\ (pc' = "done" /\ result'.status = "Ok" /\ args.pipeline = "cpp") =>
            info'.include_dirs = ExpectedIncludeDirs]_vars

\* a C++ run over two dependencies succeeded and both contributed a search
\* path and a library
C13_Witness ==
    /\ args.pipeline = "cpp"
    /\ pc = "done"
    /\ result.status = "Ok"
    /\ NumDeps = 2
    /\ Len(info.library_search_paths) = 2
    /\ Len(info.libraries) = 2
    /\ info.library_search_paths[1] # info.library_search_paths[2]

\* C14: the search paths one artifact contributes hold no path twice and are
\* the parents of its so/dll entries; the libraries hold one name per so/dll
\* entry walked; and both are appended whole to the accumulated lists, so
\* that nothing is dropped because an earlier artifact had it.
C14_DedupPerArtifact ==
    [][(pc = "item" /\ pc' = "item") =>
          /\ \A a, b \in 1..Len(scan'.paths) : a # b => scan'.paths[a] # scan'.paths[b]
          /\ Range(scan'.paths) = {Front(scan'.walk[n]) : n \in Matches(scan'.walk)}
          /\ Len(scan'.libs) = Cardinality(Matches(scan'.walk))
          /\ info'.library_search_paths = info.library_search_paths \o scan'.paths
          /\ info'.libraries = info.libraries \o scan'.libs]_vars

\* from_existing returned over two artifacts: two files shared a parent
\* directory, a library name came from both artifacts and another twice from
\* one artifact
C14_Witness ==
    /\ pc = "done"
    /\ result.status = "Ok"
    /\ scan.k = 2
    /\ Len(info.library_search_paths) = 3
    /\ Len(info.libraries) = 4
    /\ Cardinality(Range(info.libraries)) = 2

(***************************************************************************)
(* Properties of the single functions.                                     *)
(***************************************************************************)
RECURSIVE SplitOn(_, _)
\* the pieces of s between occurrences of the character c
SplitOn(s, c) ==
    IF \A i \in 1..Len(s) : s[i] # c THEN <<s>>
    ELSE LET k == CHOOSE i \in 1..Len(s) : s[i] = c /\ \A j \in 1..(i - 1) : s[j] # c
         IN  <<SubSeq(s, 1, k - 1)>> \o SplitOn(SubSeq(s, k + 1, Len(s)), c)

Called(fn) == pc = "done" /\ args.fn = fn

\* C15: gcc_clang_args is one -I<path> per include directory, then one
\* -L<path> per search path, then one -l<name> per library, each group in the
\* order of its list; ld_library_path is the search paths joined with ':'.
C15_Flags ==
    /\ Called("gcc_clang_args") =>
          LET v == result.value
              ni == Len(args.info.include_dirs)
              ns == Len(args.info.library_search_paths)
              nl == Len(args.info.libraries)
          IN  /\ Len(v) = ni + ns + nl
              /\ \A k \in 1..ni :
                    v[k] = <<"-", "I">> \o display(args.info.include_dirs[k])
              /\ \A k \in 1..ns :
                    v[ni + k] = <<"-", "L">> \o display(args.info.library_search_paths[k])
              /\ \A k \in 1..nl :
                    v[ni + ns + k] = <<"-", "l">> \o args.info.libraries[k]
    /\ Called("ld_library_path") =>
          LET sp == args.info.library_search_paths
          IN  IF sp = <<>> THEN result.value = <<>>
              ELSE SplitOn(result.value, ":") = [k \in 1..Len(sp) |-> display(sp[k])]

\* the flags of a CppInfo with two different entries in each list
C15_Witness ==
    /\ Called("gcc_clang_args")
    /\ Len(result.value) = 6
    /\ Len(args.info.include_dirs) = 2
    /\ args.info.include_dirs[1] # args.info.include_dirs[2]
    /\ Len(args.info.library_search_paths) = 2
    /\ args.info.library_search_paths[1] # args.info.library_search_paths[2]
    /\ Len(args.info.libraries) = 2
    /\ args.info.libraries[1] # args.info.libraries[2]

\* base, group with '/' for every '.', /artifact/version/artifact-version
UrlStem(dep, base) ==
    base \o join_str(SplitOn(dep.group_id, "."), <<"/">>) \o <<"/">> \o dep.artifact_id
        \o <<"/">> \o dep.version \o <<"/">> \o dep.artifact_id \o <<"-">> \o dep.version

\* C16: CppDependency::get_url is base + group with dots replaced by '/' +
\* /artifact/version/artifact-version-platform + suffix + .zip, the suffix
\* being "", "static", "debug", "staticdebug" for (is_static, is_debug) =
\* (F,F), (T,F), (F,T), (T,T).
C16_CppUrl ==
    Called("Cpp_get_url") =>
        LET suffix ==
                CASE ~args.is_static /\ ~args.is_debug -> <<>>
                  [] args.is_static /\ ~args.is_debug -> <<"s", "t", "a", "t", "i", "c">>
                  [] ~args.is_static /\ args.is_debug -> <<"d", "e", "b", "u", "g">>
                  [] args.is_static /\ args.is_debug -> <<"s", "t", "a", "t", "i", "c", "d", "e", "b", "u", "g">>
        IN  result.value = UrlStem(args.dep, args.maven_url) \o <<"-">> \o args.platform
                               \o suffix \o <<".", "z", "i", "p">>

\* the URL of a static debug artifact whose group id has two dots
C16_Witness ==
    /\ Called("Cpp_get_url")
    /\ args.is_static /\ args.is_debug
    /\ args.dep.group_id = <<"c", ".", "t", ".", "p">>
    /\ Len(result.value) > 0

\* C17: JavaDependency::get_url is base + group with dots replaced by '/' +
\* /artifact_id/version/ + file_name(), file_name() being
\* artifact_id-version.jar; and the last path segment of the URL is the name
\* of the one file the download writes into the output directory.
C17_JavaUrl ==
    Called("Java_download_library_to_folder") =>
        /\ result.value = UrlStem(args.dep, args.maven_url) \o <<".", "j", "a", "r">>
        /\ file_name(args.dep) = args.dep.artifact_id \o <<"-">> \o args.dep.version \o <<".", "j", "a", "r">>
        /\ result.status = "Ok"
        /\ FilePaths(fs) = {OutRoot \o <<Last(SplitOn(result.value, "/"))>>}

\* a jar was downloaded for a group id with two dots from a base URL that has
\* path segments of its own
C17_Witness ==
    /\ Called("Java_download_library_to_folder")
    /\ result.status = "Ok"
    /\ args.dep.group_id = <<"c", ".", "t", ".", "p">>
    /\ args.maven_url = <<"h", ":", "/", "r", "/">>
    /\ FilePaths(fs) # {}

\* a non-empty string of decimal digits
IsDecimal(x) == x # <<>> /\ \A i \in 1..Len(x) : x[i] \in DigitChars

\* decimal digits with at most one sign in front
IsIntegerText(x) ==
    IsDecimal(x) \/ (Len(x) > 1 /\ x[1] \in {"+", "-"} /\ IsDecimal(Tail(x)))

\* C18: a manifest whose frcYear is a decimal string for a value of the
\* unsigned 32-bit range parses to the VendorDep of the manifest that gives
\* the equal integer instead; a string that is not an integer fails to parse.
C18_FrcYearLenient ==
    (Called("from_json") /\ args.json.frcYear.type = "string") =>
        LET x == args.json.frcYear.s
        IN  /\ (IsDecimal(x) /\ LeqDec(Canon(x), U32Max)) =>
                  /\ result.status = "Ok"
                  /\ result.value.frc_year = Canon(x)
                  /\ result = from_json([args.json EXCEPT !.frcYear = JsonInt(FALSE, x)])
            /\ ~IsIntegerText(x) => result.status = "Err"

\* the string "4294967295" (u32::MAX) was parsed
C18_Witness ==
    /\ Called("from_json")
    /\ args.json.frcYear = JsonString(U32Max)
    /\ result.status = "Ok"

(***************************************************************************)
(* Properties of what the downloads leave on disk.                         *)
(***************************************************************************)
\* the member is directory-typed: its name ends in '/'
DirectoryTyped(member) == member.name # <<>> /\ Last(member.name) = "/"

\* C19: after a successful zip download into out_folder every non-directory
\* member of the archive is a regular file at out_folder joined with the
\* member's path, below directories that all exist; and the step of the
\* extraction that meets a directory-typed member creates nothing.
C19_MembersOnDisk ==
    [][/\ (attempt'.res = "Ok" /\ attempt'.phase \in {"headers", "libs"}) =>
            \A k \in 1..Len(attempt'.resp.body.members) :
                LET member == attempt'.resp.body.members[k]
                    target == Normalize(attempt'.out_folder \o components(member.name))
                IN  ~DirectoryTyped(member) =>
                        /\ [path |-> target, data |-> member.data] \in fs'.files
                        /\ \A j \in 1..(Len(target) - 1) : SubSeq(target, 1, j) \in fs'.dirs
       /\ (pc = "extract" /\ DirectoryTyped(attempt.resp.body.members[attempt.i])) =>
            fs' = fs]_vars

\* an archive with a directory entry and a file below it was extracted into a
\* directory that did not exist before
C19_Witness ==
    /\ attempt.res = "Ok"
    /\ attempt.phase = "libs"
    /\ attempt.resp.body = ZipGood
    /\ attempt.out_folder \in attempt.created
    /\ \E p \in attempt.created : IsFile(fs, p)

\* C20: when the Java pipeline returns after the dependency loop, it returns
\* the entries of the output directory that are regular files, each once and
\* no directory, in the order read_dir gives them (any order); it returns an
\* error there only when the output directory cannot be listed.
C20_JavaListing ==
    (args.pipeline = "java" /\ pc = "done" /\ result.error.kind # "NotFoundError") =>
        IF result.status = "Ok"
        THEN /\ Range(result.jars) =
                    {q \in Entries(fs) : /\ Len(q) = Len(OutRoot) + 1
                                         /\ IsPrefix(OutRoot, q)
                                         /\ q \notin fs.dirs}
             /\ Len(result.jars) = Cardinality(Range(result.jars))
        ELSE result.error.kind = "IoError" /\ OutRoot \notin fs.dirs

\* the Java pipeline returned the two jars it wrote and the file that was
\* there before, beside a directory that it left out
C20_Witness ==
    /\ args.pipeline = "java"
    /\ pc = "done"
    /\ result.status = "Ok"
    /\ NumDeps = 2
    /\ Len(result.jars) = 3
    /\ \E q \in fs.dirs : Len(q) = Len(OutRoot) + 1 /\ IsPrefix(OutRoot, q)

(***************************************************************************)
(* Properties of the order of the downloads and of the scan.               *)
(***************************************************************************)
\* a download call is made in this step: the next mirror is taken from the
\* iterator and its request sent
Starts == mirrorIdx' = mirrorIdx + 1

\* C21: downloads are strictly sequential: a download call is made only when
\* no other is in flight, it is one of the current dependency, an attempt in
\* flight belongs to the current dependency, and the pipeline moves to the
\* next dependency only when the current one was committed by a successful
\* attempt (or its mirrors are exhausted).
C21_Sequential ==
    [][/\ Starts =>
            /\ pc = "for"
            /\ attempt.res # "pending"
            /\ attempt'.dep = depIdx
       /\ attempt.res = "pending" => (pc = "extract" /\ attempt.dep = depIdx)
       /\ depIdx' # depIdx =>
            /\ depIdx' = depIdx + 1
            /\ attempt.res # "pending" \/ attempt'.res # "pending"
            /\ \/ pc = "scan" /\ attempt.res = "Ok" /\ attempt.dep = depIdx
               \/ attempt'.res = "Ok" /\ attempt'.dep = depIdx
               \/ \A j \in Mirrors : outcome'[j] = "Err"]_vars

\* a download of the second dependency is in flight
C21_Witness ==
    /\ depIdx = 2
    /\ attempt.dep = 2
    /\ attempt.res = "pending"

C23_ScanAfterAllDownloads == pc = "scan" => depIdx = NumDeps

\* C24: the scan classifies regular files only: the library names and the
\* search paths an artifact contributes are those of the walked regular
\* files with extension so or dll; a directory with such a name and an entry
\* with another extension contribute nothing.
C24_RegularFilesOnly ==
    Scanned =>
        LET files == {n \in Matches(scan.walk) : IsFile(fs, scan.walk[n])}
        IN  /\ Len(scan.libs) = Cardinality(files)
            /\ Range(scan.paths) = {Front(scan.walk[n]) : n \in files}

\* C25: a zip download that returns an error leaves the output directory as
\* it was before the call: it has created no file and no directory.
C25_FailureLeavesNothing ==
    (attempt.phase \in {"headers", "libs"} /\ attempt.res \in DownloadErrors) =>
        attempt.created = {}

\* C26: the result depends only on what the run downloaded: every so/dll
\* entry that a scan of the run turns into a library name and a search path
\* is a file written during this run, not one that was on disk before it.
C26_OnlyThisRun ==
    Scanned =>
        \A n \in Matches(scan.walk) :
            \E f \in fs.files \ Leftover.files : f.path = scan.walk[n]

====
